---- MODULE Spec2Model ----
(***************************************************************************)
(* PostgresqlStorage (aw_datastore/storages/postgresql.py): the buckets    *)
(* and events tables of one PostgreSQL database, the store instances that  *)
(* share it (each with its own bucket_id -> rowid cache), and every public *)
(* operation of the storage as one atomic action (autocommit: a statement  *)
(* is a transaction; a call runs to completion before the next starts).    *)
(*                                                                         *)
(* An optional value (Python None or a value) is a sequence: << >> is      *)
(* None, <<v>> is the value v.  Times are integers: a datetime is its      *)
(* exact number of microseconds since the epoch, a timedelta its exact     *)
(* number of microseconds.                                                 *)
(***************************************************************************)
EXTENDS Integers, Sequences, FiniteSets, TLC

VARIABLES
    db_buckets,         \* table buckets: set of rows
    db_events,          \* table events: set of rows
    buckets_rowid_seq,  \* last value of the BIGSERIAL sequence of buckets.rowid
    events_id_seq,      \* last value of the BIGSERIAL sequence of events.id
    bucket_cache,       \* per instance: self._bucket_cache, bucket id -> optional rowid
    last,               \* the last call: operation, arguments, outcome, return value, SQL issued
    first_created,      \* history: bucket id -> optional metadata returned by the call that created the row
    gone,               \* history: per instance, the ids it deleted that nobody created again since
    dead_rows,          \* history: rowids of deleted bucket rows
    create_pc           \* per instance: its position in a create_bucket call run step by step

vars == <<db_buckets, db_events, buckets_rowid_seq, events_id_seq, bucket_cache,
          last, first_created, gone, dead_rows, create_pc>>

----------------------------------------------------------------------------
(* Bounds of the model *)

MaxBucketSeq == 2   \* bucket-row inserts attempted in a run
MaxEventSeq == 2    \* event rows inserted in a run
MaxBatch == 2       \* length of an insert_many list

(* Program constants *)

\* 2**63 - 1 in the source; TLC's greatest integer stands for it: both lie
\* above every time the model stores or queries.
MAX_TIMESTAMP == 2147483647

None == << >>
Some(v) == <<v>>
Opt(S) == {None} \cup {Some(v) : v \in S}

AllInstances == {1, 2}
BucketIds == {"b1", "b2"}

----------------------------------------------------------------------------
(* Conversions *)

\* A payload (a Python dict with string keys) is a sequence of <<key, value>> pairs.
EmptyDict == << >>
DictK1 == << <<"k", 1>> >>
DictK2 == << <<"k", 2>> >>
Dicts == {EmptyDict, DictK1, DictK2}

\* json.dumps on the modelled payloads.
json_dumps(d) ==
    CASE d = EmptyDict -> "{}"
      [] d = DictK1 -> "{\"k\": 1}"
      [] d = DictK2 -> "{\"k\": 2}"

\* json.loads: the payload whose serialisation is the text.
json_loads(s) == CHOOSE d \in Dicts : json_dumps(d) = s

\* Python `x or y` on an optional dict / a string: None, {} and "" are falsy.
DictOr(optd, dflt) == IF optd = None \/ optd[1] = EmptyDict THEN dflt ELSE optd[1]
StrOr(s, dflt) == IF s = "" THEN dflt ELSE s

RECURSIVE Pow2(_)
Pow2(n) == IF n = 0 THEN 1 ELSE 2 * Pow2(n - 1)

RECURSIVE Pow2Mod(_, _)
Pow2Mod(n, m) == IF n = 0 THEN 1 % m ELSE (2 * Pow2Mod(n - 1, m)) % m

\* floor(log2(n)), n >= 1
RECURSIVE FloorLog2(_)
FloorLog2(n) == IF n < 2 THEN 0 ELSE 1 + FloorLog2(n \div 2)

\* the smallest j with n * 2^j >= 10^6, n >= 1
RECURSIVE ScaleExp(_, _)
ScaleExp(n, j) == IF n * Pow2(j) >= 1000000 THEN j ELSE ScaleExp(n, j + 1)

(* int(x * 1_000_000) where x is the IEEE-754 double nearest to n / 10^6    *)
(* (datetime.timestamp() and timedelta.total_seconds() return it) for       *)
(* 0 <= n <= 2147 microseconds, in exact integer arithmetic.  With          *)
(* j = ScaleExp(n, 0) the double is m * 2^-(52+j), m = n * 2^(52+j) / 10^6  *)
(* rounded to nearest; r is the remainder of that division.  When m was     *)
(* rounded down (r < 10^6 / 2) the exact product m * 2^-(52+j) * 10^6 is    *)
(* n - r * 2^-(52+j); the multiplication rounds it to the doubles next to   *)
(* n, whose spacing below n is 2^(e-52), e = FloorLog2(n) (half that when n *)
(* is a power of two).  The product rounds below n, and int() truncates it  *)
(* to n - 1, exactly when r * 2^-(52+j) exceeds half that spacing.          *)
FloatMicros(n) ==
    IF n = 0 THEN 0
    ELSE LET j == ScaleExp(n, 0)
             e == FloorLog2(n)
             r == (n * Pow2Mod(52 + j, 1000000)) % 1000000
             half == IF Pow2(e) = n THEN Pow2(e + j - 2) ELSE Pow2(e + j - 1)
         IN  IF r < 500000 /\ r > half THEN n - 1 ELSE n

\* The conversion on the times of the model, computed once.
MaxMicros == 600
FloatMicrosTable == [n \in 0..MaxMicros |-> FloatMicros(n)]

\* _to_us(dt): int(dt.timestamp() * 1_000_000)
to_us(dt) == FloatMicrosTable[dt]

\* int(duration.total_seconds() * 1_000_000)
duration_us(td) == FloatMicrosTable[td]

\* datetime.fromtimestamp(us / 1_000_000, tz=utc): the double nearest to
\* us / 10^6 differs from it by less than 2^-53 of its value, and
\* fromtimestamp rounds to the nearest microsecond, which is us again.
from_us(us) == us

----------------------------------------------------------------------------
(* The schema (CREATE_SCHEMA) and the statements the code issues *)

\* buckets.id is UNIQUE: the rows with a public identifier (at most one).
BucketRowsWithId(bs, bucket_id) == {b \in bs : b.id = bucket_id}

\* Mutant: the reference is not checked.
ForeignKeyOk_unchecked(bs, rid) == TRUE

\* events.bucketrow REFERENCES buckets(rowid): the reference is to an existing row.
ForeignKeyOk(bs, rid) == \E b \in bs : b.rowid = rid

\* Mutant: the foreign key without ON DELETE CASCADE taking effect.
CascadeDelete_none(es, removed) == es

\* ON DELETE CASCADE: the events left when the bucket rows `removed` are deleted.
CascadeDelete(es, removed) == {e \in es : ~ \E b \in removed : b.rowid = e.bucketrow}

\* The dict get_metadata and buckets() build from a row.
Metadata(row) ==
    [id |-> row.id, name |-> row.name, type |-> row.type, client |-> row.client,
     hostname |-> row.hostname, created |-> row.created,
     data |-> json_loads(StrOr(row.datastr, "{}"))]

\* Mutant: ON CONFLICT (id) DO UPDATE, an upsert that overwrites the row.
InsertBucket_upsert(bs, seq, bucket_id, type_id, client, hostname, created, name, data) ==
    LET old == BucketRowsWithId(bs, bucket_id)
        rowid == IF old = {} THEN seq + 1 ELSE (CHOOSE b \in old : TRUE).rowid
    IN  (bs \ old) \cup {[rowid |-> rowid, id |-> bucket_id, name |-> name, type |-> type_id,
                          client |-> client, hostname |-> hostname, created |-> created,
                          datastr |-> json_dumps(DictOr(data, EmptyDict))]}

\* Mutant: the rowid is the lowest one no row holds, not the next of the sequence.
InsertBucket_lowest_free(bs, seq, bucket_id, type_id, client, hostname, created, name, data) ==
    IF BucketRowsWithId(bs, bucket_id) # {} THEN bs
    ELSE bs \cup {[rowid |-> CHOOSE n \in 1..(seq + 1) :
                                 /\ \A b \in bs : b.rowid # n
                                 /\ \A k \in 1..(n - 1) : \E b \in bs : b.rowid = k,
                   id |-> bucket_id, name |-> name, type |-> type_id,
                   client |-> client, hostname |-> hostname, created |-> created,
                   datastr |-> json_dumps(DictOr(data, EmptyDict))]}

\* INSERT INTO buckets ... ON CONFLICT (id) DO NOTHING.  The row takes the next
\* value of the rowid sequence; it is inserted unless a row has the identifier.
InsertBucketIfAbsent(bs, seq, bucket_id, type_id, client, hostname, created, name, data) ==
    IF BucketRowsWithId(bs, bucket_id) # {} THEN bs
    ELSE bs \cup {[rowid |-> seq + 1, id |-> bucket_id, name |-> name, type |-> type_id,
                   client |-> client, hostname |-> hostname, created |-> created,
                   datastr |-> json_dumps(DictOr(data, EmptyDict))]}

\* Mutant: the client argument assigned to the hostname column.
UpdateBucketRow_wrong_column(row, type_id, client, hostname, name, data) ==
    [row EXCEPT !.type = IF type_id # None THEN type_id[1] ELSE @,
                !.hostname = IF hostname # None THEN hostname[1]
                             ELSE IF client # None THEN client[1] ELSE @,
                !.name = IF name # None THEN name ELSE @,
                !.datastr = IF data # None THEN json_dumps(data[1]) ELSE @]

\* UPDATE buckets SET <the supplied fields> WHERE id = bucket_id
UpdateBucketRow(row, type_id, client, hostname, name, data) ==
    [row EXCEPT !.type = IF type_id # None THEN type_id[1] ELSE @,
                !.client = IF client # None THEN client[1] ELSE @,
                !.hostname = IF hostname # None THEN hostname[1] ELSE @,
                !.name = IF name # None THEN name ELSE @,
                !.datastr = IF data # None THEN json_dumps(data[1]) ELSE @]

UpdateBuckets(bs, bucket_id, type_id, client, hostname, name, data) ==
    {IF b.id = bucket_id THEN UpdateBucketRow(b, type_id, client, hostname, name, data) ELSE b
        : b \in bs}

\* Mutant: the cache entry is kept (no pop).
CachePop_missing(cache, i, bucket_id) == cache

\* self._bucket_cache.pop(bucket_id, None) on instance i
CachePop(cache, i, bucket_id) == [cache EXCEPT ![i][bucket_id] = None]

\* _refresh_bucket_cache: the whole mapping read from the table
RefreshedCache(bs) ==
    [bid \in BucketIds |->
        IF BucketRowsWithId(bs, bid) = {} THEN None
        ELSE Some((CHOOSE b \in bs : b.id = bid).rowid)]

\* Mutant: a missing row is not an error, the lookup returns rowid 0.
bucket_rowid_no_raise(i, bucket_id) ==
    IF bucket_cache[i][bucket_id] # None
    THEN [found |-> TRUE, rid |-> bucket_cache[i][bucket_id][1],
          cache |-> bucket_cache, sql |-> << >>]
    ELSE LET rows == BucketRowsWithId(db_buckets, bucket_id) IN
         IF rows = {}
         THEN [found |-> TRUE, rid |-> 0, cache |-> bucket_cache,
               sql |-> <<"SELECT buckets">>]
         ELSE LET rid == (CHOOSE b \in rows : TRUE).rowid IN
              [found |-> TRUE, rid |-> rid,
               cache |-> [bucket_cache EXCEPT ![i][bucket_id] = Some(rid)],
               sql |-> <<"SELECT buckets">>]

\* Mutant: on a miss the whole cache is read again from the table.
bucket_rowid_refreshing(i, bucket_id) ==
    IF bucket_cache[i][bucket_id] # None
    THEN [found |-> TRUE, rid |-> bucket_cache[i][bucket_id][1],
          cache |-> bucket_cache, sql |-> << >>]
    ELSE LET rows == BucketRowsWithId(db_buckets, bucket_id) IN
         IF rows = {}
         THEN [found |-> FALSE, rid |-> 0, cache |-> bucket_cache,
               sql |-> <<"SELECT buckets">>]
         ELSE [found |-> TRUE, rid |-> (CHOOSE b \in rows : TRUE).rowid,
               cache |-> [bucket_cache EXCEPT ![i] = RefreshedCache(db_buckets)],
               sql |-> <<"SELECT buckets">>]

(* _bucket_rowid(bucket_id) on instance i: the cached rowid if there is     *)
(* one; otherwise one SELECT on buckets, the cache filled on success.      *)
(* found: a rowid is returned; rid: that rowid; cache: the caches after    *)
(* the call; sql: the statements issued.                                   *)
bucket_rowid(i, bucket_id) ==
    IF bucket_cache[i][bucket_id] # None
    THEN [found |-> TRUE, rid |-> bucket_cache[i][bucket_id][1],
          cache |-> bucket_cache, sql |-> << >>]
    ELSE LET rows == BucketRowsWithId(db_buckets, bucket_id) IN
         IF rows = {}
         THEN [found |-> FALSE, rid |-> 0, cache |-> bucket_cache,
               sql |-> <<"SELECT buckets">>]
         ELSE LET rid == (CHOOSE b \in rows : TRUE).rowid IN
              [found |-> TRUE, rid |-> rid,
               cache |-> [bucket_cache EXCEPT ![i][bucket_id] = Some(rid)],
               sql |-> <<"SELECT buckets">>]

\* The record of a call.
Call(op, i, bucket_id, args, outcome, ret, sql) ==
    [op |-> op, inst |-> i, bucket |-> bucket_id, args |-> args,
     outcome |-> outcome, ret |-> ret, sql |-> sql]

\* History of a call that leaves the bucket table as it is.
HistoryUnchanged == UNCHANGED <<first_created, gone, dead_rows, create_pc>>

----------------------------------------------------------------------------
(* Construction and bucket operations *)

\* An instance outside create_bucket.
IdlePc == [at |-> "idle", bucket |-> "", args |-> << >>, won |-> FALSE,
           overlapped |-> FALSE, deleted |-> FALSE, outcome |-> "", ret |-> << >>]

Init ==
    /\ db_buckets = {}
    /\ db_events = {}
    /\ buckets_rowid_seq = 0
    /\ events_id_seq = 0
    /\ bucket_cache = [i \in AllInstances |-> [bid \in BucketIds |-> None]]
    /\ last = Call("__init__", 0, "", << >>, "ok", << >>, << >>)
    /\ first_created = [bid \in BucketIds |-> None]
    /\ gone = [i \in AllInstances |-> {}]
    /\ dead_rows = {}
    /\ create_pc = [i \in AllInstances |-> IdlePc]

\* __init__ of instance i on the existing database (a process restart):
\* CREATE ... IF NOT EXISTS changes nothing, the cache is rebuilt.
init(i) ==
    /\ bucket_cache' = [bucket_cache EXCEPT ![i] = RefreshedCache(db_buckets)]
    /\ last' = Call("__init__", i, "", << >>, "ok", << >>, <<"CREATE SCHEMA", "SELECT buckets">>)
    /\ UNCHANGED <<db_buckets, db_events, buckets_rowid_seq, events_id_seq>>
    /\ HistoryUnchanged

\* buckets()
buckets(i) ==
    /\ last' = Call("buckets", i, "", << >>, "ok",
                    {Metadata(b) : b \in db_buckets}, <<"SELECT buckets">>)
    /\ UNCHANGED <<db_buckets, db_events, buckets_rowid_seq, events_id_seq, bucket_cache>>
    /\ HistoryUnchanged

\* get_metadata(bucket_id) on the bucket table bs: found and the dict
get_metadata_of(bs, bucket_id) ==
    LET rows == BucketRowsWithId(bs, bucket_id) IN
    IF rows = {} THEN [outcome |-> "NotFound", ret |-> << >>]
    ELSE [outcome |-> "ok", ret |-> Metadata(CHOOSE b \in rows : TRUE)]

get_metadata(i, bucket_id) ==
    LET m == get_metadata_of(db_buckets, bucket_id) IN
    /\ last' = Call("get_metadata", i, bucket_id, << >>, m.outcome, m.ret, <<"SELECT buckets">>)
    /\ UNCHANGED <<db_buckets, db_events, buckets_rowid_seq, events_id_seq, bucket_cache>>
    /\ HistoryUnchanged

create_bucket(i, bucket_id, type_id, client, hostname, created, name, data) ==
    LET existed == BucketRowsWithId(db_buckets, bucket_id) # {}
        bs == InsertBucketIfAbsent(db_buckets, buckets_rowid_seq, bucket_id, type_id,
                                   client, hostname, created, name, data)
        m == get_metadata_of(bs, bucket_id)
    IN
    /\ buckets_rowid_seq < MaxBucketSeq
    /\ buckets_rowid_seq' = buckets_rowid_seq + 1
    /\ db_buckets' = bs
    /\ bucket_cache' = CachePop(bucket_cache, i, bucket_id)
    /\ last' = Call("create_bucket", i, bucket_id,
                    [type_id |-> type_id, client |-> client, hostname |-> hostname,
                     created |-> created, name |-> name, data |-> data, existed |-> existed],
                    m.outcome, m.ret, <<"INSERT buckets", "SELECT buckets">>)
    /\ first_created' = IF existed THEN first_created
                        ELSE [first_created EXCEPT ![bucket_id] = Some(m.ret)]
    /\ gone' = IF existed THEN gone ELSE [j \in AllInstances |-> gone[j] \ {bucket_id}]
    /\ UNCHANGED <<db_events, events_id_seq, dead_rows, create_pc>>

\* Mutant: the check for an empty update is missing.
NoUpdates_unchecked(type_id, client, hostname, name, data) == FALSE

\* `not updates`: no argument added an assignment to the statement
NoUpdates(type_id, client, hostname, name, data) ==
    type_id = None /\ client = None /\ hostname = None /\ name = None /\ data = None

update_bucket(i, bucket_id, type_id, client, hostname, name, data) ==
    LET args == [type_id |-> type_id, client |-> client, hostname |-> hostname,
                 name |-> name, data |-> data]
    IN
    IF NoUpdates(type_id, client, hostname, name, data)
    THEN /\ last' = Call("update_bucket", i, bucket_id, args, "InvalidArgument", << >>, << >>)
         /\ UNCHANGED <<db_buckets, db_events, buckets_rowid_seq, events_id_seq, bucket_cache>>
         /\ HistoryUnchanged
    ELSE LET bs == UpdateBuckets(db_buckets, bucket_id, type_id, client, hostname, name, data)
             m == get_metadata_of(bs, bucket_id)
         IN
         /\ db_buckets' = bs
         /\ last' = Call("update_bucket", i, bucket_id, args, m.outcome, m.ret,
                         <<"UPDATE buckets", "SELECT buckets">>)
         /\ first_created' = IF bs = db_buckets THEN first_created
                             ELSE [first_created EXCEPT ![bucket_id] = None]
         /\ UNCHANGED <<db_events, buckets_rowid_seq, events_id_seq, bucket_cache,
                        gone, dead_rows, create_pc>>

\* The instance is in no call (one connection, synchronous calls).
Returned(i) == create_pc[i].at \in {"idle", "done"}

\* History: the create_bucket calls on the identifier that are under way or
\* have returned see a deletion of it.
DeletionSeen(pc, bucket_id) ==
    [j \in AllInstances |->
        IF pc[j].at # "idle" /\ pc[j].bucket = bucket_id
        THEN [pc[j] EXCEPT !.deleted = TRUE] ELSE pc[j]]

delete_bucket(i, bucket_id) ==
    LET rows == BucketRowsWithId(db_buckets, bucket_id) IN
    /\ Returned(i)
    /\ IF Cardinality(rows) # 1
       THEN /\ last' = Call("delete_bucket", i, bucket_id, << >>, "NotFound", << >>,
                            <<"DELETE buckets">>)
            /\ UNCHANGED <<db_buckets, db_events, buckets_rowid_seq, events_id_seq, bucket_cache>>
            /\ HistoryUnchanged
       ELSE /\ db_buckets' = db_buckets \ rows
            /\ db_events' = CascadeDelete(db_events, rows)
            /\ bucket_cache' = CachePop(bucket_cache, i, bucket_id)
            /\ last' = Call("delete_bucket", i, bucket_id, << >>, "ok", << >>, <<"DELETE buckets">>)
            /\ first_created' = [first_created EXCEPT ![bucket_id] = None]
            /\ gone' = [gone EXCEPT ![i] = @ \cup {bucket_id}]
            /\ dead_rows' = dead_rows \cup {b.rowid : b \in rows}
            /\ create_pc' = DeletionSeen(create_pc, bucket_id)
            /\ UNCHANGED <<buckets_rowid_seq, events_id_seq>>

----------------------------------------------------------------------------
(* create_bucket statement by statement, for calls of instances that run *)
(* at the same time: each statement is a transaction of its own          *)

\* cur.execute(INSERT ... ON CONFLICT (id) DO NOTHING)
create_bucket_insert(i, bucket_id, a) ==
    LET bs == InsertBucketIfAbsent(db_buckets, buckets_rowid_seq, bucket_id, a.type_id,
                                   a.client, a.hostname, a.created, a.name, a.data)
        won == bs # db_buckets
    IN
    /\ Returned(i)
    /\ buckets_rowid_seq < MaxBucketSeq
    /\ buckets_rowid_seq' = buckets_rowid_seq + 1
    /\ db_buckets' = bs
    /\ create_pc' = [create_pc EXCEPT ![i] =
                        [at |-> "pop", bucket |-> bucket_id, args |-> a, won |-> won,
                         overlapped |-> \E j \in AllInstances \ {i} :
                                           /\ create_pc[j].at \in {"pop", "read"}
                                           /\ create_pc[j].bucket = bucket_id,
                         deleted |-> FALSE, outcome |-> "", ret |-> << >>]]
    /\ first_created' = IF won THEN [first_created EXCEPT ![bucket_id] =
                                        Some(get_metadata_of(bs, bucket_id).ret)]
                        ELSE first_created
    /\ gone' = IF won THEN [j \in AllInstances |-> gone[j] \ {bucket_id}] ELSE gone
    /\ UNCHANGED <<db_events, events_id_seq, bucket_cache, last, dead_rows>>

\* self._bucket_cache.pop(bucket_id, None)
create_bucket_pop(i) ==
    /\ create_pc[i].at = "pop"
    /\ bucket_cache' = CachePop(bucket_cache, i, create_pc[i].bucket)
    /\ create_pc' = [create_pc EXCEPT ![i].at = "read"]
    /\ UNCHANGED <<db_buckets, db_events, buckets_rowid_seq, events_id_seq, last,
                   first_created, gone, dead_rows>>

\* return self.get_metadata(bucket_id)
create_bucket_read(i) ==
    LET pc == create_pc[i]
        m == get_metadata_of(db_buckets, pc.bucket)
    IN
    /\ pc.at = "read"
    /\ last' = Call("create_bucket", i, pc.bucket,
                    [type_id |-> pc.args.type_id, client |-> pc.args.client,
                     hostname |-> pc.args.hostname, created |-> pc.args.created,
                     name |-> pc.args.name, data |-> pc.args.data, existed |-> ~ pc.won],
                    m.outcome, m.ret, <<"INSERT buckets", "SELECT buckets">>)
    /\ create_pc' = [create_pc EXCEPT ![i].at = "done", ![i].outcome = m.outcome,
                                      ![i].ret = m.ret]
    /\ UNCHANGED <<db_buckets, db_events, buckets_rowid_seq, events_id_seq, bucket_cache,
                   first_created, gone, dead_rows>>

----------------------------------------------------------------------------
(* Event operations *)

\* An Event object: id (optional), timestamp (datetime), duration (timedelta), data (dict).
Event(id, timestamp, duration, data) ==
    [id |-> id, timestamp |-> timestamp, duration |-> duration, data |-> data]

\* s = self._to_us(event.timestamp); e = s + int(event.duration.total_seconds() * 1_000_000)
StartUs(event) == to_us(event.timestamp)
EndUs(event) == StartUs(event) + duration_us(event.duration)

EventRow(id, rid, event) ==
    [id |-> id, bucketrow |-> rid, starttime |-> StartUs(event), endtime |-> EndUs(event),
     datastr |-> json_dumps(event.data)]

\* The Event get_event and get_events build from a row.
EventOfRow(row) ==
    LET start == from_us(row.starttime)
        end == from_us(row.endtime)
    IN  Event(Some(row.id), start, end - start, json_loads(row.datastr))

\* Mutant: the UPDATE leaves bucketrow out of its SET list.
UpdateEventById_keeps_bucket(es, bs, rid, event_id, event) ==
    LET hit == {e \in es : e.id = event_id} IN
    IF hit = {} THEN [events |-> es, failed |-> FALSE]
    ELSE [events |-> (es \ hit)
                     \cup {[id |-> event_id, bucketrow |-> (CHOOSE e \in hit : TRUE).bucketrow,
                            starttime |-> to_us(event.timestamp),
                            endtime |-> to_us(event.timestamp) + duration_us(event.duration),
                            datastr |-> json_dumps(event.data)]},
          failed |-> FALSE]

(* UPDATE events SET bucketrow, starttime, endtime, datastr WHERE id =      *)
(* event_id.  No row with that id: nothing changes.  Otherwise the row is  *)
(* rewritten, unless rid references no bucket row (foreign key violation). *)
UpdateEventById(es, bs, rid, event_id, event) ==
    LET hit == {e \in es : e.id = event_id} IN
    IF hit = {} THEN [events |-> es, failed |-> FALSE]
    ELSE IF ~ ForeignKeyOk(bs, rid) THEN [events |-> es, failed |-> TRUE]
    ELSE [events |-> (es \ hit) \cup {EventRow(event_id, rid, event)}, failed |-> FALSE]

\* insert_many, pass 1: one UPDATE per event with an id, in list order, each
\* its own transaction; the first failure ends the call.
RECURSIVE ApplyUpdates(_, _, _, _)
ApplyUpdates(es, bs, rid, updates) ==
    IF updates = << >> THEN [events |-> es, failed |-> FALSE]
    ELSE LET u == UpdateEventById(es, bs, rid, Head(updates).id[1], Head(updates)) IN
         IF u.failed THEN u ELSE ApplyUpdates(u.events, bs, rid, Tail(updates))

\* insert_many, pass 2: one INSERT of all the events without id, which take
\* the next values of the id sequence in list order.
BulkRows(seq, rid, to_insert) ==
    {EventRow(seq + k, rid, to_insert[k]) : k \in 1..Len(to_insert)}

HasId(event) == event.id # None
HasNoId(event) == event.id = None

insert_one(i, bucket_id, event) ==
    LET r == bucket_rowid(i, bucket_id) IN
    /\ r.found => events_id_seq < MaxEventSeq
    /\ IF ~ r.found
       THEN /\ last' = Call("insert_one", i, bucket_id, [event |-> event], "NotFound", << >>, r.sql)
            /\ UNCHANGED <<db_events, events_id_seq, bucket_cache>>
       ELSE IF ~ ForeignKeyOk(db_buckets, r.rid)
       THEN /\ last' = Call("insert_one", i, bucket_id, [event |-> event], "StorageFailure",
                            << >>, r.sql \o <<"INSERT events">>)
            /\ events_id_seq' = events_id_seq + 1
            /\ bucket_cache' = r.cache
            /\ UNCHANGED db_events
       ELSE /\ db_events' = db_events \cup {EventRow(events_id_seq + 1, r.rid, event)}
            /\ events_id_seq' = events_id_seq + 1
            /\ bucket_cache' = r.cache
            /\ last' = Call("insert_one", i, bucket_id, [event |-> event], "ok",
                            [event EXCEPT !.id = Some(events_id_seq + 1)],
                            r.sql \o <<"INSERT events">>)
    /\ UNCHANGED <<db_buckets, buckets_rowid_seq>>
    /\ HistoryUnchanged

insert_many(i, bucket_id, events) ==
    LET r == bucket_rowid(i, bucket_id)
        updates == SelectSeq(events, HasId)
        to_insert == SelectSeq(events, HasNoId)
        u == ApplyUpdates(db_events, db_buckets, r.rid, updates)
        usql == [k \in 1..Len(updates) |-> "UPDATE events"]
        isql == IF to_insert = << >> THEN << >> ELSE <<"INSERT events">>
        args == [events |-> events]
    IN
    /\ r.found => events_id_seq + Len(to_insert) <= MaxEventSeq
    /\ IF events = << >>
       THEN /\ last' = Call("insert_many", i, bucket_id, args, "ok", << >>, << >>)
            /\ UNCHANGED <<db_events, events_id_seq, bucket_cache>>
       ELSE IF ~ r.found
       THEN /\ last' = Call("insert_many", i, bucket_id, args, "NotFound", << >>, r.sql)
            /\ UNCHANGED <<db_events, events_id_seq, bucket_cache>>
       ELSE IF u.failed
       THEN /\ last' = Call("insert_many", i, bucket_id, args, "StorageFailure", << >>,
                            r.sql \o usql)
            /\ db_events' = u.events
            /\ bucket_cache' = r.cache
            /\ UNCHANGED events_id_seq
       ELSE IF to_insert # << >> /\ ~ ForeignKeyOk(db_buckets, r.rid)
       THEN /\ last' = Call("insert_many", i, bucket_id, args, "StorageFailure", << >>,
                            r.sql \o usql \o isql)
            /\ db_events' = u.events
            /\ events_id_seq' = events_id_seq + Len(to_insert)
            /\ bucket_cache' = r.cache
       ELSE /\ db_events' = u.events \cup BulkRows(events_id_seq, r.rid, to_insert)
            /\ events_id_seq' = events_id_seq + Len(to_insert)
            /\ bucket_cache' = r.cache
            /\ last' = Call("insert_many", i, bucket_id, args, "ok", << >>,
                            r.sql \o usql \o isql)
    /\ UNCHANGED <<db_buckets, buckets_rowid_seq>>
    /\ HistoryUnchanged

\* Mutant: the statement matches on the identifier alone.
RowsById_unscoped(es, rid, event_id) == {e \in es : e.id = event_id}

\* WHERE id = event_id AND bucketrow = rid (delete, get_event)
RowsByIdInBucket(es, rid, event_id) == {e \in es : e.id = event_id /\ e.bucketrow = rid}

delete(i, bucket_id, event_id) ==
    LET r == bucket_rowid(i, bucket_id)
        hit == RowsByIdInBucket(db_events, r.rid, event_id)
        args == [event_id |-> event_id]
    IN
    /\ IF ~ r.found
       THEN /\ last' = Call("delete", i, bucket_id, args, "NotFound", << >>, r.sql)
            /\ UNCHANGED <<db_events, bucket_cache>>
       ELSE /\ db_events' = db_events \ hit
            /\ bucket_cache' = r.cache
            /\ last' = Call("delete", i, bucket_id, args, "ok", Cardinality(hit),
                            r.sql \o <<"DELETE events">>)
    /\ UNCHANGED <<db_buckets, buckets_rowid_seq, events_id_seq>>
    /\ HistoryUnchanged

replace(i, bucket_id, event_id, event) ==
    LET r == bucket_rowid(i, bucket_id)
        u == UpdateEventById(db_events, db_buckets, r.rid, event_id, event)
        args == [event_id |-> event_id, event |-> event]
    IN
    /\ IF ~ r.found
       THEN /\ last' = Call("replace", i, bucket_id, args, "NotFound", << >>, r.sql)
            /\ UNCHANGED <<db_events, bucket_cache>>
       ELSE IF u.failed
       THEN /\ last' = Call("replace", i, bucket_id, args, "StorageFailure", << >>,
                            r.sql \o <<"UPDATE events">>)
            /\ bucket_cache' = r.cache
            /\ UNCHANGED db_events
       ELSE /\ db_events' = u.events
            /\ bucket_cache' = r.cache
            /\ last' = Call("replace", i, bucket_id, args, "ok",
                            [event EXCEPT !.id = Some(event_id)],
                            r.sql \o <<"UPDATE events">>)
    /\ UNCHANGED <<db_buckets, buckets_rowid_seq, events_id_seq>>
    /\ HistoryUnchanged

\* SELECT id FROM events WHERE bucketrow = rid ORDER BY endtime DESC LIMIT 1:
\* the rows the subquery may return (a tie is broken by the storage).
LastRows(es, rid) ==
    {e \in es : e.bucketrow = rid /\ \A f \in es : f.bucketrow = rid => f.endtime <= e.endtime}

replace_last(i, bucket_id, event) ==
    LET r == bucket_rowid(i, bucket_id)
        args == [event |-> event]
    IN
    /\ IF ~ r.found
       THEN /\ last' = Call("replace_last", i, bucket_id, args, "NotFound", << >>, r.sql)
            /\ UNCHANGED <<db_events, bucket_cache>>
       ELSE IF LastRows(db_events, r.rid) = {}
       THEN /\ last' = Call("replace_last", i, bucket_id, args, "ok", event,
                            r.sql \o <<"UPDATE events">>)
            /\ bucket_cache' = r.cache
            /\ UNCHANGED db_events
       ELSE \E row \in LastRows(db_events, r.rid) :
            /\ db_events' = (db_events \ {row}) \cup {EventRow(row.id, row.bucketrow, event)}
            /\ bucket_cache' = r.cache
            /\ last' = Call("replace_last", i, bucket_id, args, "ok",
                            [event EXCEPT !.id = Some(row.id)],
                            r.sql \o <<"UPDATE events">>)
    /\ UNCHANGED <<db_buckets, buckets_rowid_seq, events_id_seq>>
    /\ HistoryUnchanged

get_event(i, bucket_id, event_id) ==
    LET r == bucket_rowid(i, bucket_id)
        hit == RowsByIdInBucket(db_events, r.rid, event_id)
        args == [event_id |-> event_id]
    IN
    /\ IF ~ r.found
       THEN /\ last' = Call("get_event", i, bucket_id, args, "NotFound", << >>, r.sql)
            /\ UNCHANGED bucket_cache
       ELSE /\ bucket_cache' = r.cache
            /\ last' = Call("get_event", i, bucket_id, args, "ok",
                            IF hit = {} THEN None ELSE Some(EventOfRow(CHOOSE e \in hit : TRUE)),
                            r.sql \o <<"SELECT events">>)
    /\ UNCHANGED <<db_buckets, db_events, buckets_rowid_seq, events_id_seq>>
    /\ HistoryUnchanged

\* The query bounds get_events and get_eventcount pass to the statement.
QueryStartUs(starttime) == IF starttime # None THEN FloatMicrosTable[starttime[1]] ELSE 0
QueryEndUs(endtime) == IF endtime # None THEN FloatMicrosTable[endtime[1]] ELSE MAX_TIMESTAMP

\* WHERE bucketrow = rid AND endtime >= s_i AND starttime <= e_i
Overlapping(es, rid, s_i, e_i) ==
    {e \in es : e.bucketrow = rid /\ e.endtime >= s_i /\ e.starttime <= e_i}

RECURSIVE Perms(_)
Perms(S) == IF S = {} THEN {<< >>}
            ELSE UNION {{<<x>> \o p : p \in Perms(S \ {x})} : x \in S}

\* ORDER BY endtime DESC: the orders the storage may return the rows in
\* (rows of equal endtime in any order).
OrderedByEndDesc(rows) ==
    {sq \in Perms(rows) : \A k \in 1..(Len(sq) - 1) : sq[k].endtime >= sq[k + 1].endtime}

\* Mutant: a negative limit reaches LIMIT as its absolute value.
Limited_negative_applied(sq, limit) ==
    LET n == IF limit < 0 THEN 0 - limit ELSE limit IN
    IF n > 0 /\ n < Len(sq) THEN SubSeq(sq, 1, n) ELSE sq

\* LIMIT n when limit > 0, no LIMIT otherwise
Limited(sq, limit) == IF limit > 0 /\ limit < Len(sq) THEN SubSeq(sq, 1, limit) ELSE sq

\* Trim to [starttime, endtime] (the loop body of get_events)
Trim(ev, starttime, endtime) ==
    LET ev1 == IF starttime # None /\ ev.timestamp < starttime[1]
               THEN [ev EXCEPT !.timestamp = starttime[1],
                               !.duration = (ev.timestamp + ev.duration) - starttime[1]]
               ELSE ev
    IN  IF endtime # None /\ (ev1.timestamp + ev1.duration) > endtime[1]
        THEN [ev1 EXCEPT !.duration = endtime[1] - ev1.timestamp]
        ELSE ev1

\* The list get_events returns for the rows in the order fetched.
EventsOfRows(sq, starttime, endtime) ==
    [k \in 1..Len(sq) |->
        IF starttime # None \/ endtime # None
        THEN Trim(EventOfRow(sq[k]), starttime, endtime)
        ELSE EventOfRow(sq[k])]

\* Mutant: no early return for limit 0.
ShortCircuit_missing(limit) == FALSE

\* `if limit == 0: return []`
ShortCircuit(limit) == limit = 0

get_events(i, bucket_id, limit, starttime, endtime) ==
    LET r == bucket_rowid(i, bucket_id)
        s_i == QueryStartUs(starttime)
        e_i == QueryEndUs(endtime)
        args == [limit |-> limit, starttime |-> starttime, endtime |-> endtime]
    IN
    /\ IF ~ r.found
       THEN /\ last' = Call("get_events", i, bucket_id, args, "NotFound", << >>, r.sql)
            /\ UNCHANGED bucket_cache
       ELSE IF ShortCircuit(limit)
       THEN /\ last' = Call("get_events", i, bucket_id, args, "ok", << >>, r.sql)
            /\ bucket_cache' = r.cache
       ELSE \E sq \in OrderedByEndDesc(Overlapping(db_events, r.rid, s_i, e_i)) :
            /\ bucket_cache' = r.cache
            /\ last' = Call("get_events", i, bucket_id, args, "ok",
                            EventsOfRows(Limited(sq, limit), starttime, endtime),
                            r.sql \o <<"SELECT events">>)
    /\ UNCHANGED <<db_buckets, db_events, buckets_rowid_seq, events_id_seq>>
    /\ HistoryUnchanged

\* SELECT COUNT(*) FROM events WHERE bucketrow = rid AND endtime >= s_i AND starttime <= e_i
EventCount(es, rid, s_i, e_i) ==
    Cardinality({e \in es : e.bucketrow = rid /\ e.endtime >= s_i /\ e.starttime <= e_i})

get_eventcount(i, bucket_id, starttime, endtime) ==
    LET r == bucket_rowid(i, bucket_id)
        s_i == QueryStartUs(starttime)
        e_i == QueryEndUs(endtime)
        args == [starttime |-> starttime, endtime |-> endtime]
    IN
    /\ IF ~ r.found
       THEN /\ last' = Call("get_eventcount", i, bucket_id, args, "NotFound", << >>, r.sql)
            /\ UNCHANGED bucket_cache
       ELSE /\ bucket_cache' = r.cache
            /\ last' = Call("get_eventcount", i, bucket_id, args, "ok",
                            EventCount(db_events, r.rid, s_i, e_i),
                            r.sql \o <<"SELECT events">>)
    /\ UNCHANGED <<db_buckets, db_events, buckets_rowid_seq, events_id_seq>>
    /\ HistoryUnchanged

----------------------------------------------------------------------------
(* Inputs and specifications *)

SeqsUpTo(S, n) == UNION {[1..k -> S] : k \in 0..n}

\* Arguments of create_bucket and of update_bucket.
CreateArgs(type_id, client, hostname, created, name, data) ==
    [type_id |-> type_id, client |-> client, hostname |-> hostname, created |-> created,
     name |-> name, data |-> data]
UpdateArgs(type_id, client, hostname, name, data) ==
    [type_id |-> type_id, client |-> client, hostname |-> hostname, name |-> name,
     data |-> data]
Query(limit, starttime, endtime) ==
    [limit |-> limit, starttime |-> starttime, endtime |-> endtime]

(* Any call of any operation on any instance in P.insts with arguments from *)
(* the input sets of P (those of update_bucket are given per bucket).       *)
Ops(P) ==
    \E i \in P.insts, bucket_id \in BucketIds :
        \/ init(i)
        \/ buckets(i)
        \/ get_metadata(i, bucket_id)
        \/ \E a \in P.creates :
              create_bucket(i, bucket_id, a.type_id, a.client, a.hostname, a.created,
                            a.name, a.data)
        \/ \E a \in P.updates[bucket_id] :
              update_bucket(i, bucket_id, a.type_id, a.client, a.hostname, a.name, a.data)
        \/ delete_bucket(i, bucket_id)
        \/ \E event \in P.events : insert_one(i, bucket_id, event)
        \/ \E events \in P.batches : insert_many(i, bucket_id, events)
        \/ \E event_id \in P.event_ids : delete(i, bucket_id, event_id)
        \/ \E event_id \in P.event_ids, event \in P.events :
              replace(i, bucket_id, event_id, event)
        \/ \E event \in P.events : replace_last(i, bucket_id, event)
        \/ \E event_id \in P.event_ids : get_event(i, bucket_id, event_id)
        \/ \E q \in P.queries :
              get_events(i, bucket_id, q.limit, q.starttime, q.endtime)
        \/ \E q \in P.queries : get_eventcount(i, bucket_id, q.starttime, q.endtime)

\* 249 microseconds is a time the float conversion does not return unchanged.
CreateX == CreateArgs("x", "x", "x", "x", None, None)
CreateY == CreateArgs("y", "y", "y", "y", Some("y"), Some(DictK1))
UpdateNone == UpdateArgs(None, None, None, None, None)

(* One instance; event writes with identified and unidentified events. *)
WriteInputs ==
    [insts |-> {1},
     creates |-> {CreateX},
     updates |-> [b \in BucketIds |->
                    {UpdateNone, UpdateArgs(Some("x"), None, None, None, None)}],
     events |-> {Event(None, 0, 249, DictK1), Event(None, 250, 1, DictK1)},
     batches |-> SeqsUpTo({Event(id, 249, 1, DictK2) : id \in {None, Some(1)}}, MaxBatch),
     event_ids |-> {1, 2},
     queries |-> {Query(-1, None, None), Query(0, None, None)}]

Next == Ops(WriteInputs)

Spec == Init /\ [][Next]_vars

(* One instance; range queries with and without bounds and limit over     *)
(* events stored as [0, 248], [248, 496] and [250, 251].                  *)
QueryInputs ==
    [insts |-> {1},
     creates |-> {CreateX},
     updates |-> [b \in BucketIds |->
                    {UpdateNone, UpdateArgs(Some("x"), None, None, None, None)}],
     events |-> {Event(None, 0, 249, DictK1), Event(None, 248, 249, DictK1),
                 Event(None, 250, 1, DictK1)},
     batches |-> SeqsUpTo({Event(None, 250, 1, DictK1)}, MaxBatch - 1),
     event_ids |-> {1},
     queries |-> {Query(limit, starttime, endtime) :
                     limit \in {-1, 0, 1}, starttime \in {None, Some(249)},
                     endtime \in {None, Some(250)}}]

NextQuery == Ops(QueryInputs)

SpecQuery == Init /\ [][NextQuery]_vars

(* One instance; bucket metadata: two sets of creation arguments; on b1,   *)
(* updates of the first k fields for every k and of the payload alone.    *)
BucketInputs ==
    [insts |-> {1},
     creates |-> {CreateX, CreateY},
     updates |-> [b \in BucketIds |->
                    IF b = "b1"
                    THEN {UpdateNone,
                          UpdateArgs(Some("z"), None, None, None, None),
                          UpdateArgs(Some("z"), Some("z"), None, None, None),
                          UpdateArgs(Some("z"), Some("z"), Some("z"), None, None),
                          UpdateArgs(Some("z"), Some("z"), Some("z"), Some("z"), None),
                          UpdateArgs(Some("z"), Some("z"), Some("z"), Some("z"), Some(DictK2)),
                          UpdateArgs(None, None, None, None, Some(EmptyDict))}
                    ELSE {UpdateNone}],
     events |-> {Event(None, 0, 1, DictK1)},
     batches |-> SeqsUpTo({Event(None, 0, 1, DictK1)}, MaxBatch - 1),
     event_ids |-> {1},
     queries |-> {Query(-1, None, None)}]

NextBucket == Ops(BucketInputs)

SpecBucket == Init /\ [][NextBucket]_vars

(* Two instances on one database; each may hold a bucket in its cache that *)
(* the other has deleted or created again.                                 *)
SharedInputs ==
    [insts |-> {1, 2},
     creates |-> {CreateX},
     updates |-> [b \in BucketIds |->
                    IF b = "b1" THEN {UpdateNone, UpdateArgs(Some("z"), None, None, None, None)}
                    ELSE {UpdateNone}],
     events |-> {Event(None, 0, 1, DictK1)},
     batches |-> SeqsUpTo({Event(id, 2, 1, DictK2) : id \in {None, Some(1)}}, MaxBatch - 1),
     event_ids |-> {1},
     queries |-> {Query(-1, None, None)}]

NextShared == Ops(SharedInputs)

SpecShared == Init /\ [][NextShared]_vars

(* Two instances that call create_bucket at the same time, statement by   *)
(* statement, and delete_bucket between their calls.                      *)
NextRace ==
    \E i \in AllInstances, bucket_id \in BucketIds :
        \/ \E a \in {CreateX, CreateY} : create_bucket_insert(i, bucket_id, a)
        \/ create_bucket_pop(i)
        \/ create_bucket_read(i)
        \/ delete_bucket(i, bucket_id)

SpecRace == Init /\ [][NextRace]_vars

----------------------------------------------------------------------------
(* Notions the properties share *)

EventOps == {"insert_one", "insert_many", "delete", "replace", "replace_last",
             "get_event", "get_events", "get_eventcount"}

BucketExists(bs, bucket_id) == BucketRowsWithId(bs, bucket_id) # {}
RowidOf(bs, bucket_id) == (CHOOSE b \in bs : b.id = bucket_id).rowid

\* what get_eventcount without bounds counts for the bucket row rid
CountOf(es, rid) == Cardinality(Overlapping(es, rid, 0, MAX_TIMESTAMP))

\* insert_many with an empty list
EmptyInsertMany(call) == call.op = "insert_many" /\ call.args.events = << >>

----------------------------------------------------------------------------
(* C2: delete cascade *)

\* no event row references a deleted bucket row
NoEventOfDeadRow == \A e \in db_events : e.bucketrow \notin dead_rows

\* a failed delete_bucket removes nothing; a delete_bucket of an identifier
\* without row fails
DeleteMissingStep ==
    last'.op = "delete_bucket" =>
        /\ ~ BucketExists(db_buckets, last'.bucket) => last'.outcome = "NotFound"
        /\ last'.outcome = "NotFound" => UNCHANGED <<db_buckets, db_events>>

\* C2 as claimed: after delete_bucket(id) succeeded on an instance, no event
\* row references the deleted row and every event operation on id through
\* that instance fails with NotFound until id is created again; a
\* delete_bucket of a missing identifier fails with NotFound and removes nothing.
C2_AsClaimed ==
    /\ [](NoEventOfDeadRow
          /\ ((last.op \in EventOps /\ last.bucket \in gone[last.inst])
                => last.outcome = "NotFound"))
    /\ [][DeleteMissingStep]_vars

\* C2 amended: the same, for every event operation other than insert_many
\* with an empty list.
C2_DeleteCascade ==
    /\ [](NoEventOfDeadRow
          /\ ((last.op \in EventOps /\ last.bucket \in gone[last.inst] /\ ~ EmptyInsertMany(last))
                => last.outcome = "NotFound"))
    /\ [][DeleteMissingStep]_vars

\* get_eventcount fails on a bucket deleted after an event was stored
C2_Witness ==
    /\ last.op = "get_eventcount" /\ last.bucket \in gone[last.inst]
    /\ last.outcome = "NotFound"
    /\ events_id_seq > 0 /\ db_events = {} /\ dead_rows # {}

----------------------------------------------------------------------------
(* C3: insert_many *)

InsertManyOk(call) == call.op = "insert_many" /\ call.outcome = "ok" /\ call.args.events # << >>
Mixed(events) == (\E k \in 1..Len(events) : HasId(events[k]))
                 /\ (\E k \in 1..Len(events) : HasNoId(events[k]))
NumWithoutId(events) == Cardinality({k \in 1..Len(events) : HasNoId(events[k])})
ListedIds(events) == {events[k].id[1] : k \in {n \in 1..Len(events) : HasId(events[n])}}
\* the last event of the list that carries the identifier
LastListed(events, id) ==
    events[CHOOSE k \in 1..Len(events) :
              /\ events[k].id = Some(id)
              /\ \A n \in (k + 1)..Len(events) : events[n].id # Some(id)]

----------------------------------------------------------------------------
(* C4: NotFound *)

\* C4 as claimed: every event operation on an identifier without bucket row
\* fails with NotFound and changes no bucket row, event row or cache entry.
C4_AsClaimed ==
    [][(last'.op \in EventOps /\ ~ BucketExists(db_buckets, last'.bucket)) =>
         /\ last'.outcome = "NotFound"
         /\ UNCHANGED <<db_buckets, db_events, bucket_cache>>]_vars

\* C4 amended: so does every event operation other than insert_many with an
\* empty list, which returns without resolving the bucket and changes nothing.
C4_NotFound ==
    [][(last'.op \in EventOps /\ ~ BucketExists(db_buckets, last'.bucket)) =>
         /\ last'.outcome = IF EmptyInsertMany(last') THEN "ok" ELSE "NotFound"
         /\ EmptyInsertMany(last') => last'.sql = << >>
         /\ UNCHANGED <<db_buckets, db_events, bucket_cache>>]_vars

\* get_events with limit 0 has failed on a missing bucket while another bucket holds an event
C4_Witness ==
    /\ last.op = "get_events" /\ last.args.limit = 0 /\ last.outcome = "NotFound"
    /\ ~ BucketExists(db_buckets, last.bucket)
    /\ db_events # {}

----------------------------------------------------------------------------
(* C8: insert_one round trip *)

\* C8 as claimed: the event insert_one returns has an identifier no other row
\* has, and get_event on it right after returns the event's start and its
\* start plus duration, hence its duration.
C8_AsClaimed ==
    (last.op = "insert_one" /\ last.outcome = "ok") =>
        LET E == last.args.event
            rows == {e \in db_events : e.id = last.ret.id[1]
                                       /\ e.bucketrow = RowidOf(db_buckets, last.bucket)}
        IN
        /\ Cardinality({e \in db_events : e.id = last.ret.id[1]}) = 1
        /\ Cardinality(rows) = 1
        /\ \A row \in rows :
              /\ EventOfRow(row).timestamp = E.timestamp
              /\ EventOfRow(row).timestamp + EventOfRow(row).duration = E.timestamp + E.duration
              /\ EventOfRow(row).duration = E.duration

----------------------------------------------------------------------------
(* C5, C6, C7: get_events *)

GetEventsOk(call) == call.op = "get_events" /\ call.outcome = "ok"
Max(a, b) == IF a >= b THEN a ELSE b
Min(a, b) == IF a <= b THEN a ELSE b
RowWithId(es, id) == CHOOSE e \in es : e.id = id
EndOf(ev) == ev.timestamp + ev.duration

\* C5 as claimed: with a bound supplied (start <= end) and stored events of
\* non-negative duration, every returned event reports start = max(stored
\* start, query start) and end = min(stored end, query end), lies inside the
\* window and has a non-negative duration; without bound the events come
\* back with their stored start and end.
C5_AsClaimed ==
    (/\ GetEventsOk(last)
     /\ \A e \in db_events : e.starttime <= e.endtime
     /\ (last.args.starttime # None /\ last.args.endtime # None)
            => last.args.starttime[1] <= last.args.endtime[1])
    => \A k \in 1..Len(last.ret) :
          LET ev == last.ret[k]
              row == RowWithId(db_events, ev.id[1])
              st == last.args.starttime
              et == last.args.endtime
          IN
          /\ ev.timestamp = IF st # None THEN Max(row.starttime, st[1]) ELSE row.starttime
          /\ EndOf(ev) = IF et # None THEN Min(row.endtime, et[1]) ELSE row.endtime
          /\ st # None => st[1] <= ev.timestamp
          /\ et # None => EndOf(ev) <= et[1]
          /\ ev.duration >= 0

\* the rows of the bucket whose stored interval overlaps the window
InWindow(es, rid, st, et) ==
    {e \in es : /\ e.bucketrow = rid
                /\ st # None => e.endtime >= st[1]
                /\ et # None => e.starttime <= et[1]}

\* C6 as claimed: get_events with a limit other than 0 returns exactly the
\* events overlapping the window, all of them or the limit's number of them
\* with the greatest end times, in non-increasing order of stored and of
\* reported end time.
C6_AsClaimed ==
    (GetEventsOk(last) /\ last.args.limit # 0) =>
        LET over == InWindow(db_events, RowidOf(db_buckets, last.bucket),
                             last.args.starttime, last.args.endtime)
            n == Len(last.ret)
            ids == {last.ret[k].id[1] : k \in 1..n}
        IN
        /\ ids \subseteq {e.id : e \in over}
        /\ Cardinality(ids) = n
        /\ n = IF last.args.limit > 0 THEN Min(last.args.limit, Cardinality(over))
               ELSE Cardinality(over)
        /\ \A k \in 1..(n - 1) :
              /\ RowWithId(db_events, last.ret[k].id[1]).endtime
                    >= RowWithId(db_events, last.ret[k + 1].id[1]).endtime
              /\ EndOf(last.ret[k]) >= EndOf(last.ret[k + 1])
        /\ \A e \in over : e.id \notin ids =>
              \A k \in 1..n : RowWithId(db_events, last.ret[k].id[1]).endtime >= e.endtime

\* C7 as claimed: get_events with limit 0 on a bucket returns an empty
\* sequence and issues no storage read, cached identifier or not.
C7_AsClaimed ==
    (last.op = "get_events" /\ last.args.limit = 0 /\ BucketExists(db_buckets, last.bucket))
        => (last.outcome = "ok" /\ last.ret = << >> /\ last.sql = << >>)

\* C7 amended: it returns an empty sequence whatever is stored and never
\* reads the events table; the one read it issues is the lookup of the
\* bucket row, when the identifier is not in the cache.
C7_LimitZero ==
    [][(last'.op = "get_events" /\ last'.args.limit = 0
        /\ BucketExists(db_buckets, last'.bucket)) =>
         /\ last'.outcome = "ok"
         /\ last'.ret = << >>
         /\ last'.sql = IF bucket_cache[last'.inst][last'.bucket] = None
                        THEN <<"SELECT buckets">> ELSE << >>
         /\ UNCHANGED <<db_buckets, db_events>>]_vars

\* limit 0 on a bucket that holds events, the identifier not cached
C7_Witness ==
    /\ last.op = "get_events" /\ last.args.limit = 0 /\ last.outcome = "ok"
    /\ last.sql = <<"SELECT buckets">>
    /\ \E e \in db_events : e.bucketrow = RowidOf(db_buckets, last.bucket)

----------------------------------------------------------------------------
(* C1, C9, C10: bucket metadata *)

CreateExisting(call) == call.op = "create_bucket" /\ call.args.existed

\* C1: a create_bucket call on an identifier that has a row raises no error,
\* leaves the bucket rows as they are and returns the row's metadata, which
\* is the metadata the creating call returned (while no update_bucket
\* changed the row).
C1_IdempotentCreate ==
    /\ [](CreateExisting(last) =>
            /\ last.outcome = "ok"
            /\ BucketExists(db_buckets, last.bucket)
            /\ last.ret = Metadata(CHOOSE b \in db_buckets : b.id = last.bucket)
            /\ first_created[last.bucket] # None => last.ret = first_created[last.bucket][1])
    /\ [][CreateExisting(last') => db_buckets' = db_buckets]_vars

\* a second create_bucket with other arguments than the first
C1_Witness ==
    /\ CreateExisting(last)
    /\ first_created[last.bucket] # None
    /\ last.args.type_id # last.ret.type
    /\ last.args.name # last.ret.name
    /\ last.args.data # None /\ last.ret.data = EmptyDict

\* C9: update_bucket with no field supplied fails with InvalidArgument and
\* changes no bucket row, event row or cache entry, bucket or no bucket.
C9_UpdateNoField ==
    [][(last'.op = "update_bucket" /\ last'.args = UpdateNone) =>
         /\ last'.outcome = "InvalidArgument"
         /\ UNCHANGED <<db_buckets, db_events, bucket_cache>>]_vars

\* an empty update has failed on a bucket that exists and holds an event
C9_Witness ==
    /\ last.op = "update_bucket" /\ last.outcome = "InvalidArgument"
    /\ last.args = UpdateNone
    /\ \E e \in db_events : e.bucketrow = RowidOf(db_buckets, last.bucket)

\* C10: an update_bucket call with a field supplied on an existing bucket
\* succeeds and changes the supplied fields of its row and nothing else:
\* identifier, created, rowid and the other fields of the row, the other
\* bucket rows, the event rows and the cache stay.
C10_UpdateFrame ==
    [][(last'.op = "update_bucket" /\ BucketExists(db_buckets, last'.bucket)
        /\ last'.args # UpdateNone) =>
         LET a == last'.args
             old == CHOOSE b \in db_buckets : b.id = last'.bucket
             new == CHOOSE b \in db_buckets' : b.id = last'.bucket
         IN
         /\ last'.outcome = "ok"
         /\ db_buckets' = (db_buckets \ {old}) \cup {new}
         /\ new.rowid = old.rowid
         /\ Metadata(new) =
               [id |-> old.id, created |-> old.created,
                type |-> IF a.type_id # None THEN a.type_id[1] ELSE old.type,
                client |-> IF a.client # None THEN a.client[1] ELSE old.client,
                hostname |-> IF a.hostname # None THEN a.hostname[1] ELSE old.hostname,
                name |-> IF a.name # None THEN a.name ELSE old.name,
                data |-> IF a.data # None THEN a.data[1] ELSE Metadata(old).data]
         /\ last'.ret = Metadata(new)
         /\ UNCHANGED <<db_events, bucket_cache>>]_vars

\* client was updated and hostname was not, with another bucket, an event
\* and a cache entry in place
C10_Witness ==
    /\ last.op = "update_bucket" /\ last.outcome = "ok"
    /\ last.args.client # None /\ last.args.hostname = None
    /\ last.ret.client = "z" /\ last.ret.hostname # "z"
    /\ Cardinality(db_buckets) = 2
    /\ db_events # {}
    /\ bucket_cache[last.inst][last.bucket] # None

----------------------------------------------------------------------------
(* C11: cache coherence of one instance *)

\* every cache entry is the rowid of the bucket row with that identifier
CacheCoherent ==
    \A i \in AllInstances, bid \in BucketIds :
        bucket_cache[i][bid] # None =>
            \E b \in db_buckets : b.id = bid /\ b.rowid = bucket_cache[i][bid][1]

\* an operation that resolves the bucket fails with NotFound exactly when no
\* row has the identifier, and the failed resolve leaves the cache as it was
ResolveStep ==
    (last'.op \in EventOps /\ ~ EmptyInsertMany(last')) =>
        /\ last'.outcome \in {"ok", "NotFound"}
        /\ last'.outcome = "NotFound" <=> ~ BucketExists(db_buckets, last'.bucket)
        /\ last'.outcome = "NotFound" => bucket_cache' = bucket_cache
        /\ last'.outcome = "ok" =>
              bucket_cache'[last'.inst][last'.bucket] = Some(RowidOf(db_buckets, last'.bucket))

\* C11: with one store instance, in every reachable state every cache entry
\* id -> ref matches the bucket row that exists with that identifier and row
\* reference; an operation that resolves a bucket fails with NotFound exactly
\* when no row has the identifier, adds no cache entry when it fails, and
\* otherwise leaves the row's reference in the cache.
C11_CacheCoherence == []CacheCoherent /\ [][ResolveStep]_vars

\* a cache hit on a bucket created again after its deletion
C11_Witness ==
    /\ last.op = "get_eventcount" /\ last.outcome = "ok" /\ last.sql = <<"SELECT events">>
    /\ dead_rows # {}
    /\ bucket_cache[1][last.bucket] = Some(RowidOf(db_buckets, last.bucket))

----------------------------------------------------------------------------
(* C12: replace *)

\* the exact start and end of an event, in microseconds
ExactStart(event) == event.timestamp
ExactEnd(event) == event.timestamp + event.duration

\* A replace call on an existing bucket: it succeeds, keeps the number of
\* rows and returns the event with the identifier; the row with the
\* identifier, if any, then belongs to the bucket with start S(event), end
\* E(event) and the event's payload, and no other row changes.
ReplaceStep(S(_), E(_)) ==
    (last'.op = "replace" /\ BucketExists(db_buckets, last'.bucket)) =>
        LET event == last'.args.event
            event_id == last'.args.event_id
            hit == {e \in db_events : e.id = event_id}
        IN
        /\ last'.outcome = "ok"
        /\ Cardinality(db_events') = Cardinality(db_events)
        /\ last'.ret = [event EXCEPT !.id = Some(event_id)]
        /\ IF hit = {} THEN db_events' = db_events
           ELSE \E row \in db_events' :
                  /\ row.id = event_id
                  /\ row.bucketrow = RowidOf(db_buckets, last'.bucket)
                  /\ row.starttime = S(event) /\ row.endtime = E(event)
                  /\ json_loads(row.datastr) = event.data
                  /\ db_events' \ {row} = db_events \ hit

\* C12 as claimed: replace on an existing bucket never raises, never changes
\* the number of event rows and returns the event with the identifier set;
\* a row with the identifier, in whatever bucket, afterwards belongs to the
\* named bucket and carries the event's start, end and payload; without
\* such a row no row changes.
C12_AsClaimed == [][ReplaceStep(ExactStart, ExactEnd)]_vars

\* the same with the start and end as the store converts them
ReplaceStepAsStored == [][ReplaceStep(StartUs, EndUs)]_vars

----------------------------------------------------------------------------
(* C13: replace_last *)

\* A replace_last call on an existing bucket.  With rows in the bucket: one
\* row of greatest end time gets start S(event), end E(event) and the
\* event's payload and keeps identifier and bucket, the returned event
\* carries that identifier, every other row stays.  Without rows: nothing
\* changes and the event is returned as given.
ReplaceLastStep(S(_), E(_)) ==
    (last'.op = "replace_last" /\ BucketExists(db_buckets, last'.bucket)) =>
        LET event == last'.args.event
            rid == RowidOf(db_buckets, last'.bucket)
            mine == {e \in db_events : e.bucketrow = rid}
        IN
        /\ last'.outcome = "ok"
        /\ Cardinality(db_events') = Cardinality(db_events)
        /\ IF mine = {}
           THEN db_events' = db_events /\ last'.ret = event
           ELSE \E old \in mine :
                  /\ \A e \in mine : e.endtime <= old.endtime
                  /\ last'.ret = [event EXCEPT !.id = Some(old.id)]
                  /\ \E row \in db_events' :
                        /\ row.id = old.id /\ row.bucketrow = old.bucketrow
                        /\ row.starttime = S(event) /\ row.endtime = E(event)
                        /\ json_loads(row.datastr) = event.data
                        /\ db_events' \ {row} = db_events \ {old}

\* C13 as claimed: replace_last on a bucket with rows changes one row, a row
\* of the bucket with the greatest end time, which gets the event's start,
\* end and payload and keeps its identifier and bucket; the identifier is set
\* on the returned event, every other row and the number of rows stay.  On
\* a bucket without rows no row changes and the event's identifier is left
\* as it was.
C13_AsClaimed == [][ReplaceLastStep(ExactStart, ExactEnd)]_vars

\* the same with the start and end as the store converts them
ReplaceLastStepAsStored == [][ReplaceLastStep(StartUs, EndUs)]_vars

----------------------------------------------------------------------------
(* C14: delete and get_event are scoped to the bucket *)

\* a delete call on an existing bucket
DeleteScopedStep ==
    (last'.op = "delete" /\ BucketExists(db_buckets, last'.bucket)) =>
        LET rid == RowidOf(db_buckets, last'.bucket)
            mine == {e \in db_events : e.id = last'.args.event_id /\ e.bucketrow = rid}
        IN
        /\ last'.outcome = "ok"
        /\ Cardinality(mine) <= 1
        /\ IF mine # {}
           THEN last'.ret = 1 /\ db_events' = db_events \ mine
           ELSE last'.ret = 0 /\ db_events' = db_events

\* a get_event call on an existing bucket
GetEventScopedStep ==
    (last'.op = "get_event" /\ BucketExists(db_buckets, last'.bucket)) =>
        LET rid == RowidOf(db_buckets, last'.bucket)
            mine == {e \in db_events : e.id = last'.args.event_id /\ e.bucketrow = rid}
        IN
        /\ last'.outcome = "ok"
        /\ IF mine = {} THEN last'.ret = None
           ELSE /\ last'.ret # None
                /\ last'.ret[1].id = Some(last'.args.event_id)
                /\ \E e \in mine : last'.ret[1] = EventOfRow(e)

\* C14: delete(bucket, event_id) on an existing bucket returns 1 and removes
\* exactly the row with the identifier when that row belongs to the bucket,
\* and returns 0 and changes nothing when no row has the identifier or the
\* row belongs to another bucket; it never raises for a missing event and
\* removes at most one row.  get_event is scoped the same way: it returns
\* the event of the bucket's row with the identifier, and None when the row
\* is missing or belongs to another bucket.
C14_ScopedToBucket == [][DeleteScopedStep /\ GetEventScopedStep]_vars

\* delete has returned 0 for an identifier whose row is in another bucket,
\* and the row is still there
C14_Witness ==
    /\ last.op = "delete" /\ last.outcome = "ok" /\ last.ret = 0
    /\ BucketExists(db_buckets, last.bucket)
    /\ \E e \in db_events :
          e.id = last.args.event_id /\ e.bucketrow # RowidOf(db_buckets, last.bucket)

----------------------------------------------------------------------------
(* C15: get_eventcount agrees with get_events *)

SameQuery(a, b) ==
    /\ a.inst = b.inst /\ a.bucket = b.bucket
    /\ a.args.starttime = b.args.starttime /\ a.args.endtime = b.args.endtime

UnlimitedGetEvents(call) ==
    call.op = "get_events" /\ call.outcome = "ok" /\ call.args.limit < 0

\* an unlimited get_events returned as many events as get_eventcount counts
\* for the same bucket and bounds on the same store content
CountMatchesEvents ==
    (UnlimitedGetEvents(last) /\ BucketExists(db_buckets, last.bucket)) =>
        Len(last.ret) = EventCount(db_events, RowidOf(db_buckets, last.bucket),
                                   QueryStartUs(last.args.starttime),
                                   QueryEndUs(last.args.endtime))

\* get_eventcount right after an unlimited get_events with the same bucket
\* and bounds, or the other way round: the count is the number of events
CountAfterEventsStep ==
    /\ (UnlimitedGetEvents(last) /\ last'.op = "get_eventcount" /\ SameQuery(last, last'))
          => (last'.outcome = "ok" /\ last'.ret = Len(last.ret))
    /\ (last.op = "get_eventcount" /\ last.outcome = "ok" /\ UnlimitedGetEvents(last')
        /\ SameQuery(last, last'))
          => Len(last'.ret) = last.ret

\* C15: for every existing bucket, store content and pair of optional
\* bounds, get_eventcount(bucket, start, end) equals the number of events
\* get_events(bucket, limit < 0, start, end) returns.
C15_CountAgrees == []CountMatchesEvents /\ [][CountAfterEventsStep]_vars

\* an unlimited query with both bounds returned two events, one of them cut
\* at the start bound
C15_Witness ==
    /\ UnlimitedGetEvents(last)
    /\ last.args.starttime # None /\ last.args.endtime # None
    /\ Len(last.ret) = 2
    /\ \E e \in db_events : e.starttime < last.args.starttime[1]

----------------------------------------------------------------------------
(* C16: reads do not write *)

ReadOps == {"get_events", "get_event", "get_eventcount", "buckets", "get_metadata"}

\* a read leaves the tables and sequences as they are; the cache stays or
\* gains the entry of the bucket the call resolved
ReadStep ==
    last'.op \in ReadOps =>
        /\ UNCHANGED <<db_buckets, db_events, buckets_rowid_seq, events_id_seq>>
        /\ \/ bucket_cache' = bucket_cache
           \/ /\ BucketExists(db_buckets, last'.bucket)
              /\ bucket_cache' = [bucket_cache EXCEPT ![last'.inst][last'.bucket] =
                                     Some(RowidOf(db_buckets, last'.bucket))]

\* the same read issued again right after a read
Repeated == 
    /\ last.op \in ReadOps /\ last'.op = last.op /\ last'.inst = last.inst
    /\ last'.bucket = last.bucket /\ last'.args = last.args

\* the stored end times of the events of a get_events result, in order
StoredEnds(ret) == [k \in 1..Len(ret) |-> RowWithId(db_events, ret[k].id[1]).endtime]

\* two get_events results that differ at most in the choice and order of
\* events of equal stored end time
SameUpToTies(a, b, limit) ==
    /\ Len(a) = Len(b)
    /\ StoredEnds(a) = StoredEnds(b)
    /\ limit < 0 => {a[k] : k \in 1..Len(a)} = {b[k] : k \in 1..Len(b)}

\* C16 as claimed: the reads leave every bucket row and event row unchanged
\* and change at most the cache, by adding the resolved identifier; the same
\* read repeated with no write in between returns the same result.
C16_AsClaimed ==
    [][ReadStep /\ (Repeated => (last'.outcome = last.outcome /\ last'.ret = last.ret))]_vars

\* C16 amended: the same, where a repeated get_events returns the same
\* result up to the events of equal end time: their order, and with a
\* positive limit which of them are returned at the cut, is the storage's
\* choice on every call.
C16_ReadsDoNotWrite ==
    [][ReadStep
       /\ (Repeated =>
             /\ last'.outcome = last.outcome
             /\ IF last.op = "get_events" /\ last.outcome = "ok"
                THEN SameUpToTies(last.ret, last'.ret, last.args.limit)
                ELSE last'.ret = last.ret)]_vars

\* a bounded get_events on a cached bucket returned two events of equal end
\* time, cut at the start bound, and the rows keep their stored start
C16_Witness ==
    /\ GetEventsOk(last) /\ last.sql = <<"SELECT events">>
    /\ last.args.starttime # None
    /\ Len(last.ret) = 2
    /\ StoredEnds(last.ret)[1] = StoredEnds(last.ret)[2]
    /\ \A k \in 1..2 :
          /\ last.ret[k].duration > 0
          /\ last.ret[k].timestamp = last.args.starttime[1]
          /\ RowWithId(db_events, last.ret[k].id[1]).starttime < last.args.starttime[1]

----------------------------------------------------------------------------
(* C17: referential integrity *)

\* at most one bucket row per public identifier
UniqueBucketIds ==
    \A b1 \in db_buckets, b2 \in db_buckets : b1.id = b2.id => b1 = b2

\* every event row references exactly one existing bucket row
EveryEventHasBucket ==
    \A e \in db_events : Cardinality({b \in db_buckets : b.rowid = e.bucketrow}) = 1

\* the rowid the instance of the call resolves for the bucket is cached and
\* references no bucket row
ResolvesDeadRow(call) ==
    /\ bucket_cache[call.inst][call.bucket] # None
    /\ ~ \E b \in db_buckets : b.rowid = bucket_cache[call.inst][call.bucket][1]

\* the call is a write that has an event row to store
StoresEvent(call) ==
    \/ call.op = "insert_one"
    \/ call.op = "insert_many" /\ \E k \in 1..Len(call.args.events) :
           \/ HasNoId(call.args.events[k])
           \/ \E e \in db_events : e.id = call.args.events[k].id[1]
    \/ call.op = "replace" /\ \E e \in db_events : e.id = call.args.event_id

\* a write under a reference without bucket row fails and stores nothing
DanglingWriteStep ==
    /\ (StoresEvent(last') /\ ResolvesDeadRow(last')) =>
           (last'.outcome = "StorageFailure" /\ db_events' = db_events)
    /\ last'.outcome = "StorageFailure" => db_events' = db_events

\* C17: with any number of store instances, in every reachable state the
\* public bucket identifiers are unique and every event row references
\* exactly one bucket row that exists; a write that would store an event
\* under a row reference without bucket row fails and stores nothing.
C17_ReferentialIntegrity ==
    [](UniqueBucketIds /\ EveryEventHasBucket) /\ [][DanglingWriteStep]_vars

\* an insert through an instance whose cache holds the rowid of a bucket
\* another instance deleted has failed, with event rows of another bucket
\* in the table
C17_Witness ==
    /\ last.op = "insert_one" /\ last.outcome = "StorageFailure"
    /\ ResolvesDeadRow(last)
    /\ last.bucket \in gone[3 - last.inst]
    /\ db_events # {}

----------------------------------------------------------------------------
(* C18: row references are stable and never reused *)

\* no bucket row holds the rowid of a deleted bucket row
NoDeadRowidInUse == \A b \in db_buckets : b.rowid \notin dead_rows

\* a bucket that exists before and after a step keeps its rowid; a row goes
\* away only by delete_bucket; a row that appears comes from create_bucket
\* with a rowid no row holds or held
RowidStep ==
    \A bid \in BucketIds :
        /\ (BucketExists(db_buckets, bid) /\ BucketExists(db_buckets', bid)) =>
               RowidOf(db_buckets', bid) = RowidOf(db_buckets, bid)
        /\ (BucketExists(db_buckets, bid) /\ ~ BucketExists(db_buckets', bid)) =>
               (last'.op = "delete_bucket" /\ last'.bucket = bid)
        /\ (~ BucketExists(db_buckets, bid) /\ BucketExists(db_buckets', bid)) =>
               /\ last'.op = "create_bucket" /\ last'.bucket = bid
               /\ RowidOf(db_buckets', bid) \notin dead_rows
               /\ \A b \in db_buckets : b.rowid # RowidOf(db_buckets', bid)

\* C18: a bucket's row reference does not change between its creation and
\* its deletion (a duplicate create_bucket and update_bucket keep it), and a
\* bucket created after a deletion, also under the identifier of the
\* deleted one, never gets a row reference a deleted bucket held.
C18_RowidStable == []NoDeadRowidInUse /\ [][RowidStep]_vars

\* an update succeeded on a bucket created again under the identifier of a
\* deleted one, which has another row reference than the deleted row had
C18_Witness ==
    /\ last.op = "update_bucket" /\ last.outcome = "ok"
    /\ dead_rows # {} /\ gone[last.inst] = {}
    /\ first_created[last.bucket] = None
    /\ RowidOf(db_buckets, last.bucket) \notin dead_rows

----------------------------------------------------------------------------
(* C20: a deletion seen from another instance *)

\* the bucket of the call was deleted through another instance than the
\* call's and not created again
DeletedByOther(call) == \E j \in AllInstances \ {call.inst} : call.bucket \in gone[j]

\* C20 as claimed: once a bucket was deleted through one instance, every
\* event operation on its identifier through the other instance fails with
\* NotFound or with a storage failure, none returns a result and none writes
\* an event row (insert_many with an empty list, which resolves no bucket,
\* set aside).
C20_AsClaimed ==
    /\ []((last.op \in EventOps /\ ~ EmptyInsertMany(last) /\ DeletedByOther(last))
            => last.outcome \in {"NotFound", "StorageFailure"})
    /\ [][(last'.op \in EventOps /\ DeletedByOther(last')) => db_events' = db_events]_vars

\* the part of it that holds: no such call writes an event row, and a call
\* through an instance without cache entry for the identifier fails with
\* NotFound
DeletedByOtherNoWrite ==
    [][(last'.op \in EventOps /\ ~ EmptyInsertMany(last') /\ DeletedByOther(last')) =>
          /\ db_events' = db_events
          /\ bucket_cache[last'.inst][last'.bucket] = None => last'.outcome = "NotFound"]_vars

----------------------------------------------------------------------------
(* C19: two instances create the same bucket at the same time *)

\* the create_bucket call of instance i has returned or raised, and no
\* delete_bucket removed its bucket since the call began
CreateReturned(i) == create_pc[i].at = "done" /\ ~ create_pc[i].deleted

\* the metadata of a row inserted with the arguments a
MetadataOfArgs(bucket_id, a) ==
    [id |-> bucket_id, name |-> a.name, type |-> a.type_id, client |-> a.client,
     hostname |-> a.hostname, created |-> a.created, data |-> DictOr(a.data, EmptyDict)]

\* both instances called create_bucket on one identifier, with no delete
\* since the first of the two calls began
BothCreated ==
    /\ CreateReturned(1) /\ CreateReturned(2)
    /\ create_pc[1].bucket = create_pc[2].bucket

\* C19: when two store instances on one database run create_bucket on the
\* same identifier, their statements (insert if absent, cache pop, re-read
\* of the metadata) interleaved in any order and no delete in between,
\* neither call raises, exactly one bucket row with the identifier exists
\* afterwards, and both calls return the same metadata, built from the
\* arguments of the call whose insert added the row.
C19_CreateRace ==
    /\ \A i \in AllInstances : CreateReturned(i) => create_pc[i].outcome = "ok"
    /\ BothCreated =>
          LET rows == BucketRowsWithId(db_buckets, create_pc[1].bucket) IN
          /\ Cardinality(rows) = 1
          /\ create_pc[1].ret = create_pc[2].ret
          /\ \A b \in rows : create_pc[1].ret = Metadata(b)
          /\ ~ (create_pc[1].won /\ create_pc[2].won)
          /\ \A i \in AllInstances :
                create_pc[i].won =>
                    create_pc[i].ret = MetadataOfArgs(create_pc[i].bucket, create_pc[i].args)

\* both calls returned, with other arguments each, and the call that lost
\* ran its insert while the winner was between its insert and its re-read
C19_Witness ==
    /\ BothCreated
    /\ create_pc[1].args # create_pc[2].args
    /\ \E i \in AllInstances :
          /\ ~ create_pc[i].won /\ create_pc[i].overlapped
          /\ create_pc[i].ret # MetadataOfArgs(create_pc[i].bucket, create_pc[i].args)
          /\ create_pc[3 - i].won

====
